---------------------------- MODULE Spec2Model ----------------------------
(***************************************************************************)
(* A model of pydkg's ECDKG session (src/pydkg/ecdkg.py): the phase        *)
(* handlers driven by run_until_phase, the session / participant /         *)
(* complaint rows they write, the commits that make them durable, and the  *)
(* peers' replies to the transport broadcasts.                             *)
(*                                                                         *)
(* The curve group is modelled by the cyclic group Z_N written additively: *)
(* a point is the scalar multiple of G it equals, G is 1 and the second    *)
(* generator G2 is another element.  Every cyclic group of order N is      *)
(* isomorphic to it, so equations between points are kept.                 *)
(***************************************************************************)
EXTENDS Integers, Sequences, FiniteSets, TLC

\* ------------------------------------------------------------------ bounds
\* Order of the scalar field / curve group (secp256k1.N, scaled down).
N == 5
\* Largest number of connected peers.
MaxPeers == 2
\* Coefficients drawn by random_private_value are taken from 1..MaxCoef.
MaxCoef == 2
\* Number of coroutines that may call run_until_phase on the session.
MaxTasks == 2
\* Total number of run_until_phase calls made on the session.
MaxCalls == 2

\* Largest number of rows in the participant and complaint tables.
MaxRows == 3

\* --------------------------------------------------------------- constants
\* ECDKGPhase
uninitialized == 0
key_distribution == 1
key_verification == 2
key_check == 3
key_generation == 4
key_publication == 5
complete == 6
ECDKGPhase == uninitialized..complete

\* The curve generators, as elements of Z_N.
G == 1
G2 == 2

\* The node's own address and the addresses of the peers it may be connected to.
own_address == 1
Peers == (own_address + 1)..(own_address + MaxPeers)
\* An address that belongs to no peer (what ECDSA recovery yields for a
\* signature made by another key, or over another message).
NoAddress == 0

\* A column that is NULL / a Python None is the empty tuple; a set column
\* holding v is <<v>>.
None == <<>>
Some(v) == <<v>>
IsSet(x) == Len(x) = 1
Val(x) == x[1]

\* ------------------------------------------------------- curve arithmetic
add(P, Q) == (P + Q) % N
multiply(P, n) == (P * n) % N

RECURSIVE pow(_, _)
pow(x, k) == IF k = 0 THEN 1 % N ELSE (x * pow(x, k - 1)) % N

RECURSIVE SumSeq(_)
SumSeq(xs) == IF xs = <<>> THEN 0 ELSE Head(xs) + SumSeq(Tail(xs))

\* functools.reduce(secp256k1.add, points, initial)
RECURSIVE reduce_add(_, _)
reduce_add(pts, acc) ==
    IF pts = <<>> THEN acc ELSE reduce_add(Tail(pts), add(acc, Head(pts)))

\* ----------------------------------------------- polynomials, commitments
RandomPrivateValues == 1..MaxCoef

\* random_polynomial(order): every tuple it may return
random_polynomial(order) == [1..order -> RandomPrivateValues]

\* eval_polynomial: coefficients low-order first, enumerate() counts from 0
eval_polynomial(poly, x) ==
    SumSeq([k \in 1..Len(poly) |-> poly[k] * pow(x, k - 1)]) % N

generate_public_shares(poly1, poly2) ==
    [k \in 1..Len(poly1) |-> add(multiply(G, poly1[k]), multiply(G2, poly2[k]))]

\* math.ceil(THRESHOLD_FACTOR * x) with THRESHOLD_FACTOR = .5
ceil_half(x) == (x + 1) \div 2


\* ------------------------------------------------------------ the rows
\* An ECDKGParticipant row as the constructor leaves it.
NewParticipant ==
    [encryption_key_part |-> None, decryption_key_part |-> None,
     verification_points |-> None, secret_share1 |-> None,
     secret_share2 |-> None, shares_signature |-> None,
     complaints |-> <<>>]

\* An ECDKG row as the constructor leaves it (phase defaults to uninitialized).
\* participants maps eth_address to the participant row; a participant's
\* complaints is the list of its ECDKGComplaint rows' complainer addresses.
NewECDKG ==
    [phase |-> uninitialized, threshold |-> None, encryption_key |-> None,
     decryption_key |-> None, secret_poly1 |-> None, secret_poly2 |-> None,
     verification_points |-> None, encryption_key_part |-> None,
     participants |-> <<>>]

\* The session as a handler sees it: mem is the ORM object graph (self and
\* its rows), db is what the last db.Session.commit() made durable, exc is
\* the exception that ended the handler ("" for none), own is the global
\* own_address of the process the handler runs in.
World(mem, db) == [mem |-> mem, db |-> db, exc |-> "", own |-> own_address]

\* db.Session.commit(): every pending change of the object graph is written.
commit(w) == [w EXCEPT !.db = w.mem]

raise(w, e) == [w EXCEPT !.exc = e]

\* The addresses of a set in ascending order: the order in which the model
\* iterates networking.channels.keys() and self.participants.
RECURSIVE Ascending(_)
Ascending(S) ==
    IF S = {} THEN <<>>
    ELSE LET a == CHOOSE x \in S : \A y \in S : x <= y
         IN <<a>> \o Ascending(S \ {a})

participant_addresses(self) == Ascending(DOMAIN self.participants)

\* get_or_create_participant_by_address: the row is added, and committed,
\* only if the query finds none.
get_or_create_participant_by_address(w, address) ==
    IF address \in DOMAIN w.mem.participants THEN w
    ELSE commit([w EXCEPT !.mem.participants =
                     (address :> NewParticipant) @@ w.mem.participants])

\* get_or_create_complaint_by_complainer_address on the participant at p.
get_or_create_complaint_by_complainer_address(w, p, address) ==
    IF \E i \in 1..Len(w.mem.participants[p].complaints) :
           w.mem.participants[p].complaints[i] = address
    THEN w
    ELSE commit([w EXCEPT !.mem.participants[p].complaints =
                     Append(@, address)])

\* ------------------------------------------------ handle_uninitialized_phase
\* for addr in networking.channels.keys(): get_or_create_participant_by_address
RECURSIVE create_participants(_, _)
create_participants(w, addrs) ==
    IF addrs = <<>> THEN w
    ELSE create_participants(
             get_or_create_participant_by_address(w, Head(addrs)), Tail(addrs))

\* A faulty threshold, for comparison: the node counts itself twice.
threshold_counting_self_twice(self) ==
    ceil_half(Cardinality(DOMAIN self.participants) + 2)

\* A faulty threshold, for comparison: one more than half the participants.
threshold_strict_majority(self) ==
    (Cardinality(DOMAIN self.participants) + 1) \div 2 + 1

\* math.ceil(THRESHOLD_FACTOR * (len(self.participants)+1))
threshold_of(self) == ceil_half(Cardinality(DOMAIN self.participants) + 1)

Min(a, b) == IF a <= b THEN a ELSE b

\* A faulty handler, for comparison: the key part is taken on G2.
set_own_contribution_on_G2(w, spoly1, spoly2) ==
    commit([w EXCEPT
        !.mem.threshold = Some(threshold_of(w.mem)),
        !.mem.secret_poly1 = Some(spoly1),
        !.mem.secret_poly2 = Some(spoly2),
        !.mem.encryption_key_part = Some(multiply(G2, spoly1[1])),
        !.mem.verification_points =
            Some([k \in 1..Min(Len(spoly1), Len(spoly2)) |->
                     add(multiply(G, spoly1[k]), multiply(G2, spoly2[k]))]),
        !.mem.phase = key_distribution])

\* The handler from line 96 on, with the two polynomials random_polynomial drew.
set_own_contribution(w, spoly1, spoly2) ==
    commit([w EXCEPT
        !.mem.threshold = Some(threshold_of(w.mem)),
        !.mem.secret_poly1 = Some(spoly1),
        !.mem.secret_poly2 = Some(spoly2),
        !.mem.encryption_key_part = Some(multiply(G, spoly1[1])),
        !.mem.verification_points =
            Some([k \in 1..Min(Len(spoly1), Len(spoly2)) |->
                     add(multiply(G, spoly1[k]), multiply(G2, spoly2[k]))]),
        !.mem.phase = key_distribution])

handle_uninitialized_phase(w, chans, spoly1, spoly2) ==
    set_own_contribution(create_participants(w, Ascending(chans)), spoly1, spoly2)

\* The polynomials the handler may draw, given the channels it sees.
drawn_polynomials(w, chans) ==
    random_polynomial(threshold_of(create_participants(w, Ascending(chans)).mem))

\* ------------------------------------------- signatures and wire formats
decryption_condition == "cond"

\* The canonical share-delivery message (lines 130-136 and 273-279).
shares_message(address, share1, share2) ==
    <<decryption_condition, address, "SECRETSHARES", share1, share2>>

\* util.sign_with_key by the key whose address is signer.
sign_with_key(msg, signer) == [ok |-> TRUE, signer |-> signer, msg |-> msg]

\* A signature that does not parse or recover.
GarbageSignature == [ok |-> FALSE, signer |-> NoAddress, msg |-> <<>>]

\* util.address_from_message_and_signature: None stands for the ValueError
\* it raises; a signature over another message recovers a foreign address.
address_from_message_and_signature(msg, signature) ==
    IF ~signature.ok THEN None
    ELSE IF signature.msg = msg THEN Some(signature.signer)
    ELSE Some(NoAddress)

\* '{0[0]:064x}{0[1]:064x}'.format(point), and a string that is no hex.
format_point(P) == [hex |-> TRUE, value |-> P]
MalformedHex == [hex |-> FALSE, value |-> 0]

\* tuple(int(s[i:i+64], 16) for i in (0, 64)) and int(s, 16): None stands
\* for the ValueError int() raises on a string that is no hex.
from_hex(s) == IF s.hex THEN Some(s.value) ELSE None

\* ---------------------------------------------- handle_key_distribution_phase
\* Lines 120-153: what processing the get_signed_secret_shares replies does
\* to one participant row.
share_accepted(own, address, reply) ==
    LET recovered == address_from_message_and_signature(
                         shares_message(own, reply.shares[1],
                                        reply.shares[2]),
                         reply.signature)
    IN IsSet(recovered) /\ Val(recovered) = address

\* A faulty loop, for comparison: it runs over the addresses of the reply
\* mapping, looking up or creating the participant of each.
store_secret_shares_of_repliers(w, replies) ==
    LET w0 == [w EXCEPT !.mem.participants =
                  [a \in DOMAIN @ \cup DOMAIN replies |->
                      IF a \in DOMAIN @ THEN @[a] ELSE NewParticipant]]
    IN [w0 EXCEPT !.mem.participants =
           [a \in DOMAIN @ |->
               IF a \in DOMAIN replies /\ share_accepted(w.own, a, replies[a])
               THEN [@[a] EXCEPT !.secret_share1 = Some(replies[a].shares[1]),
                                 !.secret_share2 = Some(replies[a].shares[2]),
                                 !.shares_signature = Some(replies[a].signature)]
               ELSE @[a]]]

store_secret_shares(w, replies) ==
    [w EXCEPT !.mem.participants =
        [a \in DOMAIN @ |->
            IF a \in DOMAIN replies /\ share_accepted(w.own, a, replies[a])
            THEN [@[a] EXCEPT !.secret_share1 = Some(replies[a].shares[1]),
                              !.secret_share2 = Some(replies[a].shares[2]),
                              !.shares_signature = Some(replies[a].signature)]
            ELSE @[a]]]

\* The points of one get_verification_points reply, None if a string of it
\* is no hex.
parse_points(strs) ==
    IF \E i \in 1..Len(strs) : ~IsSet(from_hex(strs[i])) THEN None
    ELSE Some([i \in 1..Len(strs) |-> Val(from_hex(strs[i]))])

\* Lines 159-165: the loop over the participants; it ends at the first
\* reply that int() rejects.
RECURSIVE store_verification_points(_, _, _)
store_verification_points(w, addrs, replies) ==
    IF addrs = <<>> THEN w
    ELSE LET a == Head(addrs) IN
         IF a \notin DOMAIN replies
         THEN store_verification_points(w, Tail(addrs), replies)
         ELSE IF ~IsSet(parse_points(replies[a])) THEN raise(w, "ValueError")
         ELSE store_verification_points(
                  [w EXCEPT !.mem.participants[a].verification_points =
                                parse_points(replies[a])],
                  Tail(addrs), replies)

\* Lines 159-168.
finish_key_distribution(w, replies) ==
    LET w1 == store_verification_points(w, participant_addresses(w.mem), replies)
    IN IF w1.exc /= "" THEN w1
       ELSE commit([w1 EXCEPT !.mem.phase = key_verification])

\* --------------------------------------------- handle_key_verification_phase
\* vlhs and vrhs of lines 178-183 for a participant whose shares are set and
\* whose verification_points is a non-empty tuple.
vlhs(part) ==
    add(multiply(G, Val(part.secret_share1)), multiply(G2, Val(part.secret_share2)))

vrhs(part, own) ==
    LET vps == Val(part.verification_points)
        terms == [k \in 1..Len(vps) |-> multiply(vps[k], pow(own, k - 1))]
    IN reduce_add(Tail(terms), Head(terms))

\* enumerate(None) and reduce() of an empty sequence both raise TypeError.
vrhs_raises(part) ==
    ~IsSet(part.verification_points) \/ Val(part.verification_points) = <<>>

RECURSIVE verify_participants(_, _)
verify_participants(w, addrs) ==
    IF addrs = <<>> THEN w
    ELSE LET a == Head(addrs)
             part == w.mem.participants[a]
         IN IF IsSet(part.secret_share1) /\ IsSet(part.secret_share2)
            THEN IF vrhs_raises(part) THEN raise(w, "TypeError")
                 ELSE IF vlhs(part) = vrhs(part, w.own)
                 THEN verify_participants(w, Tail(addrs))
                 ELSE verify_participants(
                          get_or_create_complaint_by_complainer_address(
                              w, a, w.own), Tail(addrs))
            ELSE verify_participants(
                     get_or_create_complaint_by_complainer_address(
                         w, a, w.own), Tail(addrs))

handle_key_verification_phase(w) ==
    LET w1 == verify_participants(w, participant_addresses(w.mem))
    IN IF w1.exc /= "" THEN w1
       ELSE commit([w1 EXCEPT !.mem.phase = key_check])

\* --------------------------------------------------- handle_key_check_phase
\* A faulty handler, for comparison: a reported complaint is recorded
\* against the first participant.
finish_key_check_recording(w, replies) ==
    LET addrs == participant_addresses(w.mem)
        w1 == IF addrs /= <<>> /\ \E p \in DOMAIN replies : replies[p] /= <<>>
              THEN [w EXCEPT !.mem.participants[Head(addrs)].complaints =
                                 Append(@, Head(addrs))]
              ELSE w
    IN commit([w1 EXCEPT !.mem.phase = key_generation])

\* A faulty handler, for comparison: it leaves the session at
\* key_publication, passing over key_generation.
finish_key_check_skipping(w, replies) ==
    commit([w EXCEPT !.mem.phase = key_publication])

\* Lines 197-205: the replies are looked at and nothing is done with them.
finish_key_check(w, replies) ==
    commit([w EXCEPT !.mem.phase = key_generation])

\* ---------------------------------------------- handle_key_generation_phase
RECURSIVE store_encryption_key_parts(_, _, _)
store_encryption_key_parts(w, addrs, replies) ==
    IF addrs = <<>> THEN w
    ELSE LET a == Head(addrs) IN
         IF a \notin DOMAIN replies THEN raise(w, "ProtocolError")
         ELSE IF ~IsSet(from_hex(replies[a])) THEN raise(w, "ValueError")
         ELSE store_encryption_key_parts(
                  [w EXCEPT !.mem.participants[a].encryption_key_part =
                                from_hex(replies[a])],
                  Tail(addrs), replies)

\* A faulty sum, for comparison: the node's own part is left out.
joint_encryption_key_without_own(self) ==
    LET addrs == participant_addresses(self)
    IN reduce_add([i \in 1..Len(addrs) |->
                      Val(self.participants[addrs[i]].encryption_key_part)], 0)

\* functools.reduce(secp256k1.add, (p.encryption_key_part ...), self.encryption_key_part)
joint_encryption_key(self) ==
    LET addrs == participant_addresses(self)
    IN reduce_add([i \in 1..Len(addrs) |->
                      Val(self.participants[addrs[i]].encryption_key_part)],
                  Val(self.encryption_key_part))

finish_key_generation(w, replies) ==
    LET w1 == store_encryption_key_parts(w, participant_addresses(w.mem), replies)
    IN IF w1.exc /= "" THEN w1
       ELSE commit([w1 EXCEPT
                !.mem.encryption_key = Some(joint_encryption_key(w1.mem)),
                !.mem.phase = key_publication])

\* --------------------------------------------- handle_key_publication_phase
RECURSIVE store_decryption_key_parts(_, _, _)
store_decryption_key_parts(w, addrs, replies) ==
    IF addrs = <<>> THEN w
    ELSE LET a == Head(addrs) IN
         IF a \notin DOMAIN replies THEN raise(w, "ProtocolError")
         ELSE IF ~IsSet(from_hex(replies[a])) THEN raise(w, "ValueError")
         ELSE store_decryption_key_parts(
                  [w EXCEPT !.mem.participants[a].decryption_key_part =
                                from_hex(replies[a])],
                  Tail(addrs), replies)

\* A faulty sum, for comparison: the node's own secret is left out.
joint_decryption_key_without_own(self) ==
    LET addrs == participant_addresses(self)
    IN SumSeq([i \in 1..Len(addrs) |->
                  Val(self.participants[addrs[i]].decryption_key_part)]) % N

\* (sum(p.decryption_key_part ...) + self.secret_poly1[0]) % secp256k1.N
joint_decryption_key(self) ==
    LET addrs == participant_addresses(self)
    IN (SumSeq([i \in 1..Len(addrs) |->
                   Val(self.participants[addrs[i]].decryption_key_part)])
        + Val(self.secret_poly1)[1]) % N

finish_key_publication(w, replies) ==
    LET w1 == store_decryption_key_parts(w, participant_addresses(w.mem), replies)
    IN IF w1.exc /= "" THEN w1
       ELSE commit([w1 EXCEPT
                !.mem.decryption_key = Some(joint_decryption_key(w1.mem)),
                !.mem.phase = complete])

\* ------------------------------------------------------- run_until_phase
\* Where the handler of a phase first suspends: at its transport broadcast,
\* or at the decryption-condition wait.  The handlers of uninitialized and
\* key_verification never suspend.
suspend_point(phase) ==
    CASE phase = key_distribution -> "kd_shares"
      [] phase = key_check -> "kc_complaints"
      [] phase = key_generation -> "kg_parts"
      [] phase = key_publication -> "kp_wait"

\* The while loop of run_until_phase from a point where the coroutine holds
\* control, run until it next suspends, returns or raises.  chans, spoly1,
\* spoly2 are what the uninitialized handler reads and draws, if it runs.
RECURSIVE run_until_phase(_, _, _, _, _)
run_until_phase(w, target_phase, chans, spoly1, spoly2) ==
    IF w.exc /= "" THEN [w |-> w, pc |-> w.exc]
    ELSE IF ~(w.mem.phase < target_phase) THEN [w |-> w, pc |-> "done"]
    ELSE IF w.mem.phase = uninitialized
    THEN run_until_phase(handle_uninitialized_phase(w, chans, spoly1, spoly2),
                         target_phase, chans, spoly1, spoly2)
    ELSE IF w.mem.phase = key_verification
    THEN run_until_phase(handle_key_verification_phase(w),
                         target_phase, chans, spoly1, spoly2)
    ELSE [w |-> w, pc |-> suspend_point(w.mem.phase)]

\* The RPC method a coroutine has broadcast when it suspends at pc.
method_sent(at) ==
    CASE at = "kd_shares" -> {"get_signed_secret_shares"}
      [] at = "kd_vpoints" -> {"get_verification_points"}
      [] at = "kc_complaints" -> {"get_complaints"}
      [] at = "kg_parts" -> {"get_encryption_key_part"}
      [] at = "kp_parts" -> {"get_decryption_key_part"}
      [] OTHER -> {}

\* ------------------------------------------------------------- the peers
\* The ways in which the peers of a run may deviate from the protocol: a set
\* of the kinds below, fixed when the run starts.  A peer may stay silent on
\* a method (the broadcast times out on it) or answer with a datum an honest
\* peer would not send.
VARIABLE adversary

\* The polynomials of peer p, of the session's threshold t.
peer_poly1(p, t) == [k \in 1..t |-> 1 + ((p + k) % MaxCoef)]
peer_poly2(p, t) == [k \in 1..t |-> 1 + ((p * k) % MaxCoef)]

\* The session of peer p once its uninitialized handler has run.
peer_session(p, t) ==
    [NewECDKG EXCEPT !.secret_poly1 = Some(peer_poly1(p, t)),
                     !.secret_poly2 = Some(peer_poly2(p, t))]

\* get_signed_secret_shares(address) on the session self of the process
\* whose private_key has the address signer.
get_signed_secret_shares(self, signer, address) ==
    LET secret_shares == <<eval_polynomial(Val(self.secret_poly1), address),
                           eval_polynomial(Val(self.secret_poly2), address)>>
    IN [shares |-> secret_shares,
        signature |-> sign_with_key(
            shares_message(address, secret_shares[1], secret_shares[2]),
            signer)]

\* Whether a share reply carries p's signature over the canonical message
\* for the shares it delivers to own_address.
properly_signed(p, reply) ==
    reply.signature = sign_with_key(
        shares_message(own_address, reply.shares[1], reply.shares[2]), p)

\* What peer p may answer to get_signed_secret_shares: the honest reply, the
\* honest shares signed by another key, the honest shares with a signature
\* that does not recover, and a share off the polynomial under p's signature.
ShareReplies(p, t) ==
    LET h == get_signed_secret_shares(peer_session(p, t), p, own_address)
        bad == <<(h.shares[1] + 1) % N, h.shares[2]>>
    IN {h}
       \cup (IF "wrong_signer" \in adversary
             THEN {[h EXCEPT !.signature.signer = NoAddress]} ELSE {})
       \cup (IF "garbage_signature" \in adversary
             THEN {[h EXCEPT !.signature = GarbageSignature]} ELSE {})
       \cup (IF "bad_share" \in adversary
             THEN {[shares |-> bad,
                    signature |-> sign_with_key(
                        shares_message(own_address, bad[1], bad[2]), p)]}
             ELSE {})

\* What peer p may answer to get_verification_points: its commitments, other
\* commitments, a list one point short, and a list with a string that is no hex.
VerificationPointReplies(p, t) ==
    LET vps == generate_public_shares(peer_poly1(p, t), peer_poly2(p, t))
        h == [k \in 1..Len(vps) |-> format_point(vps[k])]
    IN {h}
       \cup (IF "forged_points" \in adversary
             THEN {[h EXCEPT ![1] = format_point(add(vps[1], G))]} ELSE {})
       \cup (IF "short_points" \in adversary
             THEN {SubSeq(h, 1, Len(h) - 1)} ELSE {})
       \cup (IF "malformed_points" \in adversary
             THEN {[h EXCEPT ![1] = MalformedHex]} ELSE {})

\* What peer p may answer to get_complaints.
ComplaintReplies(p) == {<<>>, <<own_address>>}

\* What peer p may answer to get_encryption_key_part and
\* get_decryption_key_part: the part of its secret_poly1[0], or of another scalar.
EncryptionKeyPartReplies(p, t) ==
    {format_point(multiply(G, peer_poly1(p, t)[1]))}
    \cup (IF "other_enc_part" \in adversary
          THEN {format_point(multiply(G, (peer_poly1(p, t)[1] + 1) % N))}
          ELSE {})

DecryptionKeyPartReplies(p, t) ==
    {format_point(peer_poly1(p, t)[1])}
    \cup (IF "other_dec_part" \in adversary
          THEN {format_point((peer_poly1(p, t)[1] + 1) % N)} ELSE {})

\* The mappings broadcast_jsonrpc_call_on_all_channels may return: a reply
\* from every connected peer, or from any subset of them if the peers may
\* stay silent on the method, each reply from the peer's alphabet.
Broadcast(chans, silence, alphabet) ==
    UNION {{f \in [D -> UNION {alphabet[p] : p \in D}] :
               \A p \in D : f[p] \in alphabet[p]} :
           D \in IF silence \in adversary THEN SUBSET chans ELSE {chans}}

\* ------------------------------------------------------------- the state
VARIABLES
    ecdkg,      \* the session's object graph in memory (self, its rows)
    database,   \* the same rows as of the last commit
    channels,   \* networking.channels.keys(): the connected peers
    pc,         \* where each coroutine calling run_until_phase stands
    target,     \* the target_phase of each coroutine's call
    calls,      \* how many run_until_phase calls were made
    satisfied,  \* whether the decryption-condition signal has fired
    sent,       \* history: the RPC methods broadcast so far
    badSig,     \* history: the peers whose reply to the coroutine's last
                \* get_signed_secret_shares broadcast was not properly signed
    ekpSeen,    \* history: the encryption key parts each peer delivered
    dkpSeen,    \* history: the decryption key parts each peer delivered
    fullReply,  \* history: the methods some broadcast of which every
                \* participant answered
    heard,      \* history: the peers that answered the broadcasts of the
                \* coroutine's last key_distribution handler
    returned,   \* history: the target phases of the calls that returned
                \* with no broadcast reply delivered since
    nodes,      \* the sessions of the nodes of a network of honest nodes
    npc,        \* where each node's run_until_phase coroutine stands
    store,      \* the rows of the three tables, in the order of their ids
    handed,     \* history: the id first returned for each look-up key
    last        \* history: the last look-up-or-create call and its result

vars == <<ecdkg, database, channels, adversary, pc, target, calls, satisfied,
          sent, badSig, ekpSeen, dkpSeen, fullReply, heard, returned, nodes,
          npc, store, handed, last>>

history == <<badSig, ekpSeen, dkpSeen, fullReply, heard>>

\* What no action of the session changes.
\* The tables as rows, and the history of the look-ups made on them.
tables == <<store, handed, last>>

environment == <<channels, adversary, nodes, npc, tables>>

Tasks == 1..MaxTasks

\* The target phases the callers ask for: the phase from which the key parts
\* are exchanged, and the last one.
Targets == {key_generation, complete}

\* A coroutine that is not inside run_until_phase: never called, returned,
\* or ended by an exception.
Returned == {"idle", "done", "ProtocolError", "ValueError", "TypeError"}

\* A coroutine suspended inside a phase handler.
InHandler == {"kd_shares", "kd_vpoints", "kc_complaints", "kg_parts",
              "kp_wait", "kp_parts"}

\* The adversaries of the runs: peers that deviate in the signature of the
\* share delivery, in the shares, in the verification points, and in the
\* complaints and key parts.
SignatureAdversary == {"no_shares", "wrong_signer", "garbage_signature"}
ShareAdversary == {"no_shares", "bad_share"}
PointAdversary == {"no_points", "forged_points", "short_points",
                   "malformed_points"}
KeyAdversary == {"no_complaints", "no_enc_part", "no_dec_part",
                 "other_enc_part", "other_dec_part"}

\* The addresses of the nodes of the network: own_address and the peers.
Nodes == {own_address} \cup Peers

\* The tables with no row, no look-up made.
EmptyStore == [ecdkg |-> <<>>, ecdkg_participant |-> <<>>, ecdkg_complaint |-> <<>>]

FreshTables ==
    /\ store = EmptyStore
    /\ handed = <<>>
    /\ last = <<>>

\* Every node's session as get_or_create_by_decryption_condition created it.
FreshNodes ==
    /\ nodes = [i \in Nodes |-> [mem |-> NewECDKG, db |-> NewECDKG]]
    /\ npc = [i \in Nodes |-> "idle"]

\* The session as get_or_create_by_decryption_condition created it, no
\* run_until_phase call made yet.
Fresh ==
    /\ FreshNodes
    /\ ecdkg = NewECDKG
    /\ database = NewECDKG
    /\ channels \in SUBSET Peers
    /\ pc = [t \in Tasks |-> "idle"]
    /\ target = [t \in Tasks |-> uninitialized]
    /\ calls = 0
    /\ satisfied = FALSE
    /\ sent = {}
    /\ badSig = [t \in Tasks |-> {}]
    /\ ekpSeen = [p \in Peers |-> {}]
    /\ dkpSeen = [p \in Peers |-> {}]
    /\ fullReply = {}
    /\ heard = [t \in Tasks |-> [shares |-> {}, points |-> {}]]
    /\ returned = {}
    /\ FreshTables

Init == Fresh /\ adversary = KeyAdversary

InitShares == Fresh /\ adversary \in {SignatureAdversary, ShareAdversary}

InitPoints == Fresh /\ adversary = PointAdversary

\* The coroutine t holds control again with the session as r.w and runs to r.pc.
Proceed(t, r) ==
    /\ ecdkg' = r.w.mem
    /\ database' = r.w.db
    /\ pc' = [pc EXCEPT ![t] = r.pc]
    /\ sent' = sent \cup method_sent(r.pc)

\* The loop of run_until_phase continued after a handler that ran on at
\* phase >= key_distribution (the uninitialized handler cannot run again).
Continue(t, w) == Proceed(t, run_until_phase(w, target[t], channels, <<>>, <<>>))

\* A broadcast reply was delivered to the coroutine t: the calls that had
\* returned before it are no longer the last thing that happened.
Replied(t) == returned' = IF pc'[t] = "done" THEN {target[t]} ELSE {}

\* A faulty entry point, for comparison: the loop tests its condition after
\* the handler of the current phase instead of before it.
CallHandlingFirst(t, target_phase) ==
    /\ pc[t] \in Returned
    /\ calls < MaxCalls
    /\ calls' = calls + 1
    /\ target' = [target EXCEPT ![t] = target_phase]
    /\ \E spoly1, spoly2 \in
           IF ecdkg.phase = uninitialized /\ uninitialized < target_phase
           THEN drawn_polynomials(World(ecdkg, database), channels)
           ELSE {<<>>} :
         Proceed(t, IF ecdkg.phase \in {key_distribution, key_check,
                                        key_generation, key_publication}
                    THEN [w |-> World(ecdkg, database),
                          pc |-> suspend_point(ecdkg.phase)]
                    ELSE run_until_phase(World(ecdkg, database), target_phase,
                                         channels, spoly1, spoly2))
    /\ UNCHANGED <<environment, satisfied, history>>
    /\ returned' = returned \cup (IF pc'[t] = "done" THEN {target_phase} ELSE {})

\* A caller starts run_until_phase(target_phase); the coroutine runs to its
\* first suspension.
Call(t, target_phase) ==
    /\ pc[t] \in Returned
    /\ calls < MaxCalls
    /\ calls' = calls + 1
    /\ target' = [target EXCEPT ![t] = target_phase]
    /\ \E spoly1, spoly2 \in
           IF ecdkg.phase = uninitialized /\ uninitialized < target_phase
           THEN drawn_polynomials(World(ecdkg, database), channels)
           ELSE {<<>>} :
         Proceed(t, run_until_phase(World(ecdkg, database), target_phase,
                                    channels, spoly1, spoly2))
    /\ UNCHANGED <<environment, satisfied, history>>
    /\ returned' = returned \cup (IF pc'[t] = "done" THEN {target_phase} ELSE {})

\* The get_signed_secret_shares broadcast returns (line 117); lines 120-157.
ResumeSecretShares(t) ==
    /\ pc[t] = "kd_shares"
    /\ \E replies \in Broadcast(channels, "no_shares",
                         [p \in channels |-> ShareReplies(p, Val(ecdkg.threshold))]) :
         /\ Proceed(t, [w |-> store_secret_shares(World(ecdkg, database), replies),
                        pc |-> "kd_vpoints"])
         /\ badSig' = [badSig EXCEPT ![t] =
                {p \in DOMAIN replies : ~properly_signed(p, replies[p])}]
         /\ heard' = [heard EXCEPT ![t] =
                [shares |-> DOMAIN replies, points |-> {}]]
    /\ UNCHANGED <<environment, target, calls, satisfied, ekpSeen, dkpSeen, fullReply>>
    /\ Replied(t)

\* The get_verification_points broadcast returns (line 156); lines 159-168.
ResumeVerificationPoints(t) ==
    /\ pc[t] = "kd_vpoints"
    /\ \E replies \in Broadcast(channels, "no_points",
                         [p \in channels |-> VerificationPointReplies(p, Val(ecdkg.threshold))]) :
         /\ Continue(t, finish_key_distribution(World(ecdkg, database), replies))
         /\ heard' = [heard EXCEPT ![t].points = DOMAIN replies]
    /\ UNCHANGED <<environment, target, calls, satisfied, badSig, ekpSeen,
                   dkpSeen, fullReply>>
    /\ Replied(t)

\* The get_complaints broadcast returns (line 194); lines 197-205.
ResumeComplaints(t) ==
    /\ pc[t] = "kc_complaints"
    /\ \E replies \in Broadcast(channels, "no_complaints",
                         [p \in channels |-> ComplaintReplies(p)]) :
         Continue(t, finish_key_check(World(ecdkg, database), replies))
    /\ UNCHANGED <<environment, target, calls, satisfied, history>>
    /\ Replied(t)

\* The get_encryption_key_part broadcast returns (line 208); lines 211-227.
ResumeEncryptionKeyParts(t) ==
    /\ pc[t] = "kg_parts"
    /\ \E replies \in Broadcast(channels, "no_enc_part",
                         [p \in channels |-> EncryptionKeyPartReplies(p, Val(ecdkg.threshold))]) :
         /\ Continue(t, finish_key_generation(World(ecdkg, database), replies))
         /\ ekpSeen' = [p \in Peers |->
                IF p \in DOMAIN replies THEN ekpSeen[p] \cup {replies[p]}
                ELSE ekpSeen[p]]
         /\ fullReply' = IF DOMAIN ecdkg.participants \subseteq DOMAIN replies
                         THEN fullReply \cup {"get_encryption_key_part"}
                         ELSE fullReply
    /\ UNCHANGED <<environment, target, calls, satisfied, badSig, dkpSeen, heard>>
    /\ Replied(t)

\* A faulty handler, for comparison: it does not wait for the signal.
ResumeWithoutSignal(t) ==
    /\ pc[t] = "kp_wait"
    /\ Proceed(t, [w |-> World(ecdkg, database), pc |-> "kp_parts"])
    /\ UNCHANGED <<environment, target, calls, satisfied, history>>
    /\ UNCHANGED returned

\* util.decryption_condition_satisfied returns (line 230) and the
\* get_decryption_key_part broadcast is sent (line 232).
ResumeConditionSatisfied(t) ==
    /\ pc[t] = "kp_wait"
    /\ satisfied
    /\ Proceed(t, [w |-> World(ecdkg, database), pc |-> "kp_parts"])
    /\ UNCHANGED <<environment, target, calls, satisfied, history>>
    /\ UNCHANGED returned

\* The get_decryption_key_part broadcast returns (line 232); lines 235-249.
ResumeDecryptionKeyParts(t) ==
    /\ pc[t] = "kp_parts"
    /\ \E replies \in Broadcast(channels, "no_dec_part",
                         [p \in channels |-> DecryptionKeyPartReplies(p, Val(ecdkg.threshold))]) :
         /\ Continue(t, finish_key_publication(World(ecdkg, database), replies))
         /\ dkpSeen' = [p \in Peers |->
                IF p \in DOMAIN replies THEN dkpSeen[p] \cup {replies[p]}
                ELSE dkpSeen[p]]
         /\ fullReply' = IF DOMAIN ecdkg.participants \subseteq DOMAIN replies
                         THEN fullReply \cup {"get_decryption_key_part"}
                         ELSE fullReply
    /\ UNCHANGED <<environment, target, calls, satisfied, badSig, ekpSeen, heard>>
    /\ Replied(t)

\* The external decryption-condition signal fires.
ConditionFires ==
    /\ ~satisfied
    /\ satisfied' = TRUE
    /\ UNCHANGED <<ecdkg, database, environment, pc, target, calls, sent, history>>
    /\ UNCHANGED returned

Next ==
    \/ \E t \in Tasks, target_phase \in Targets : Call(t, target_phase)
    \/ \E t \in Tasks : ResumeSecretShares(t)
    \/ \E t \in Tasks : ResumeVerificationPoints(t)
    \/ \E t \in Tasks : ResumeComplaints(t)
    \/ \E t \in Tasks : ResumeEncryptionKeyParts(t)
    \/ \E t \in Tasks : ResumeConditionSatisfied(t)
    \/ \E t \in Tasks : ResumeDecryptionKeyParts(t)
    \/ ConditionFires

\* The session under overlapping run_until_phase calls, with peers that
\* deviate in the key parts (Spec), in the share delivery (SpecShares) and
\* in the verification points (SpecPoints).
Spec == Init /\ [][Next]_vars

SpecShares == InitShares /\ [][Next]_vars

SpecPoints == InitPoints /\ [][Next]_vars

\* ------------------------------------------------------- crash and restart
\* Peers that may stay silent on get_signed_secret_shares, so that the
\* key_verification handler has complaints to record.
CrashAdversary == {"no_shares"}

InitCrash == Fresh /\ adversary = CrashAdversary

\* The process restarts with the store as db: the object graph is loaded
\* from it and no coroutine of the old process is left.
Restart(db) ==
    /\ database' = db
    /\ ecdkg' = db
    /\ pc' = [t \in Tasks |-> "idle"]

\* The process dies while coroutines are suspended inside handlers.
Crash ==
    /\ \E t \in Tasks : pc[t] \in InHandler
    /\ Restart(database)
    /\ UNCHANGED <<environment, target, calls, satisfied, sent, history>>
    /\ returned' = {}

\* The process dies inside handle_uninitialized_phase, after k iterations of
\* the loop of lines 92-93 and before the commit of line 112.
CrashInUninitialized(t, k) ==
    /\ pc[t] \in Returned
    /\ calls < MaxCalls
    /\ ecdkg.phase = uninitialized
    /\ k \in 0..Cardinality(channels)
    /\ calls' = calls + 1
    /\ Restart(create_participants(World(ecdkg, database),
                                   SubSeq(Ascending(channels), 1, k)).db)
    /\ UNCHANGED <<environment, target, satisfied, sent, history>>
    /\ returned' = {}

\* The get_verification_points broadcast returns, the key_distribution
\* handler finishes, and the process dies inside
\* handle_key_verification_phase after k iterations of the loop of lines
\* 173-188 and before the commit of line 191.
CrashInKeyVerification(t, k) ==
    /\ pc[t] = "kd_vpoints"
    /\ k \in 0..Cardinality(DOMAIN ecdkg.participants)
    /\ \E replies \in Broadcast(channels, "no_points",
            [p \in channels |-> VerificationPointReplies(p, Val(ecdkg.threshold))]) :
         LET w1 == finish_key_distribution(World(ecdkg, database), replies)
             w2 == verify_participants(
                       w1, SubSeq(participant_addresses(w1.mem), 1, k))
         IN /\ w1.exc = ""
            /\ w1.mem.phase = key_verification
            /\ w1.mem.phase < target[t]
            /\ w2.exc = ""
            /\ Restart(w2.db)
    /\ UNCHANGED <<environment, target, calls, satisfied, sent, history>>
    /\ returned' = {}

NextCrash ==
    \/ Next
    \/ Crash
    \/ \E t \in Tasks, k \in 0..MaxPeers : CrashInUninitialized(t, k)
    \/ \E t \in Tasks, k \in 0..MaxPeers : CrashInKeyVerification(t, k)

\* The session with a process that may die and restart from the store.
SpecCrash == InitCrash /\ [][NextCrash]_vars

\* ------------------------------------------------ a network of honest nodes
\* Every node is connected to every other node, runs the code above on its
\* own session with its own own_address and private_key, and answers an RPC
\* from its session once its uninitialized handler has run.
InitNet ==
    /\ FreshNodes
    /\ ecdkg = NewECDKG
    /\ database = NewECDKG
    /\ channels = {}
    /\ adversary = {}
    /\ pc = [t \in Tasks |-> "idle"]
    /\ target = [t \in Tasks |-> uninitialized]
    /\ calls = 0
    /\ satisfied = FALSE
    /\ sent = {}
    /\ badSig = [t \in Tasks |-> {}]
    /\ ekpSeen = [p \in Peers |-> {}]
    /\ dkpSeen = [p \in Peers |-> {}]
    /\ fullReply = {}
    /\ heard = [t \in Tasks |-> [shares |-> {}, points |-> {}]]
    /\ returned = {}
    /\ FreshTables

\* The phase the nodes are asked to reach: the first one past key_generation.
NodeTarget == key_publication

NodeChannels(i) == Nodes \ {i}

NodeWorld(i) == [World(nodes[i].mem, nodes[i].db) EXCEPT !.own = i]

\* The nodes that answer a broadcast of node i: the connected nodes whose
\* session is initialized (the others let the request time out).
Answering(i) == {j \in NodeChannels(i) : nodes[j].mem.phase >= key_distribution}

\* The RPC replies of a node from its session self.
get_verification_points(self) ==
    [k \in 1..Len(Val(self.verification_points)) |->
        format_point(Val(self.verification_points)[k])]

get_encryption_key_part(self) == format_point(Val(self.encryption_key_part))

\* What the actions of the network leave alone.
session == <<ecdkg, database, channels, adversary, pc, target, calls,
             satisfied, sent, history, returned, tables>>

NodeProceed(i, r) ==
    /\ nodes' = [nodes EXCEPT ![i] = [mem |-> r.w.mem, db |-> r.w.db]]
    /\ npc' = [npc EXCEPT ![i] = r.pc]

NodeContinue(i, w) ==
    NodeProceed(i, run_until_phase(w, NodeTarget, NodeChannels(i), <<>>, <<>>))

\* Node i is asked to reach NodeTarget.  Its secret_poly1 is any polynomial
\* random_polynomial may return; its secret_poly2, which enters no key part,
\* is one of them.
NodeCall(i) ==
    /\ npc[i] = "idle"
    /\ \E spoly1 \in drawn_polynomials(NodeWorld(i), NodeChannels(i)) :
         NodeProceed(i, run_until_phase(NodeWorld(i), NodeTarget,
                                        NodeChannels(i), spoly1,
                                        peer_poly2(i, Len(spoly1))))
    /\ UNCHANGED session

NodeResumeSecretShares(i) ==
    /\ npc[i] = "kd_shares"
    /\ NodeProceed(i, [w |-> store_secret_shares(NodeWorld(i),
                            [j \in Answering(i) |->
                                get_signed_secret_shares(nodes[j].mem, j, i)]),
                       pc |-> "kd_vpoints"])
    /\ UNCHANGED session

NodeResumeVerificationPoints(i) ==
    /\ npc[i] = "kd_vpoints"
    /\ NodeContinue(i, finish_key_distribution(NodeWorld(i),
                           [j \in Answering(i) |->
                               get_verification_points(nodes[j].mem)]))
    /\ UNCHANGED session

NodeResumeComplaints(i) ==
    /\ npc[i] = "kc_complaints"
    /\ NodeContinue(i, finish_key_check(NodeWorld(i),
                           [j \in Answering(i) |-> <<>>]))
    /\ UNCHANGED session

NodeResumeEncryptionKeyParts(i) ==
    /\ npc[i] = "kg_parts"
    /\ NodeContinue(i, finish_key_generation(NodeWorld(i),
                           [j \in Answering(i) |->
                               get_encryption_key_part(nodes[j].mem)]))
    /\ UNCHANGED session

NextNet ==
    \/ \E i \in Nodes : NodeCall(i)
    \/ \E i \in Nodes : NodeResumeSecretShares(i)
    \/ \E i \in Nodes : NodeResumeVerificationPoints(i)
    \/ \E i \in Nodes : NodeResumeComplaints(i)
    \/ \E i \in Nodes : NodeResumeEncryptionKeyParts(i)

SpecNet == InitNet /\ [][NextNet]_vars

\* ================================================================ claims
\* The number of coroutines suspended inside a phase handler of the session.
HandlersInProgress == Cardinality({t \in Tasks : pc[t] \in InHandler})

\* C1: in every execution, overlapping run_until_phase calls included, the
\* value of phase never decreases from one state to the next.
C1_PhaseNeverDecreases == [][ecdkg'.phase >= ecdkg.phase]_vars

\* C2: if every participant delivered one encryption_key_part and one
\* decryption_key_part, the latter the scalar whose multiple of G is the
\* former, then whenever phase is complete, decryption_key*G is
\* encryption_key, encryption_key is the own part plus the participants'
\* parts and decryption_key is secret_poly1[0] plus their parts mod N.
PartsDelivered(p) ==
    /\ Cardinality(ekpSeen[p]) = 1
    /\ Cardinality(dkpSeen[p]) = 1
    /\ \A e \in ekpSeen[p], d \in dkpSeen[p] : multiply(G, d.value) = e.value

C2_Honest == \A p \in DOMAIN ecdkg.participants : PartsDelivered(p)

RECURSIVE SumOver(_, _)
SumOver(S, f) ==
    IF S = {} THEN 0
    ELSE LET x == CHOOSE y \in S : TRUE IN f[x] + SumOver(S \ {x}, f)

C2_JointKeyCorrect ==
    (ecdkg.phase = complete /\ C2_Honest) =>
        LET P == DOMAIN ecdkg.participants
            ek == (Val(ecdkg.encryption_key_part)
                   + SumOver(P, [p \in P |->
                         Val(ecdkg.participants[p].encryption_key_part)])) % N
            dk == (Val(ecdkg.secret_poly1)[1]
                   + SumOver(P, [p \in P |->
                         Val(ecdkg.participants[p].decryption_key_part)])) % N
        IN /\ Val(ecdkg.encryption_key) = ek
           /\ Val(ecdkg.decryption_key) = dk
           /\ (Val(ecdkg.decryption_key) * G) % N = Val(ecdkg.encryption_key)

C2_Witness ==
    /\ ecdkg.phase = complete
    /\ C2_Honest
    /\ DOMAIN ecdkg.participants = Peers

\* C3: in a network of honest nodes, each connected to all the others, any
\* two nodes whose phase is past key_generation hold the same encryption_key.
PastKeyGeneration(i) == nodes[i].mem.phase > key_generation

C3_SameEncryptionKey ==
    \A i, j \in Nodes :
        (PastKeyGeneration(i) /\ PastKeyGeneration(j)) =>
            /\ IsSet(nodes[i].mem.encryption_key)
            /\ nodes[i].mem.encryption_key = nodes[j].mem.encryption_key

C3_Witness ==
    /\ \A i \in Nodes : PastKeyGeneration(i)
    /\ \A i \in Nodes : DOMAIN nodes[i].mem.participants = Nodes \ {i}
    /\ \E i, j \in Nodes :
           nodes[i].mem.encryption_key_part /= nodes[j].mem.encryption_key_part

\* C4: a run_until_phase call whose get_encryption_key_part (respectively
\* get_decryption_key_part) broadcast misses a participant ends with
\* ProtocolError, and phase is then still key_generation (respectively
\* key_publication) and encryption_key (respectively decryption_key) unset.
C4_ErrorLeavesPhase ==
    [][\A t \in Tasks :
        /\ (pc[t] = "kg_parts" /\ pc'[t] = "ProtocolError") =>
               (ecdkg'.phase = key_generation /\ ~IsSet(ecdkg'.encryption_key))
        /\ (pc[t] = "kp_parts" /\ pc'[t] = "ProtocolError") =>
               (ecdkg'.phase = key_publication /\ ~IsSet(ecdkg'.decryption_key))
      ]_vars

\* C5: when a key_distribution handler has received from a participant a
\* get_signed_secret_shares reply whose signature does not recover, or
\* recovers another address, then as that handler sets phase to
\* key_verification the participant's secret_share1, secret_share2 and
\* shares_signature are unset, and the key_verification handler that
\* follows leaves a complaint by own_address against the participant.
C5_BadSignatureShareUnset ==
    [][\A t \in Tasks :
        (pc[t] = "kd_vpoints"
         /\ pc'[t] \in {"kc_complaints", "kg_parts", "kp_wait", "done"}) =>
            \A p \in badSig[t] :
                /\ ~IsSet(ecdkg'.participants[p].secret_share1)
                /\ ~IsSet(ecdkg'.participants[p].secret_share2)
                /\ ~IsSet(ecdkg'.participants[p].shares_signature)
                /\ \E i \in 1..Len(ecdkg'.participants[p].complaints) :
                       ecdkg'.participants[p].complaints[i] = own_address
      ]_vars

\* C6: once the key_verification handler has completed, a participant whose
\* shares and verification_points are set has a complaint by own_address if
\* and only if share1*G + share2*G2 differs from the sum over k of
\* verification_points[k]*own_address^k, and then exactly one.
ComplaintsByOwn(part) ==
    Cardinality({i \in 1..Len(part.complaints) : part.complaints[i] = own_address})

SharesVerify(part) ==
    LET vps == Val(part.verification_points)
    IN (G * Val(part.secret_share1) + G2 * Val(part.secret_share2)) % N
       = SumSeq([k \in 1..Len(vps) |-> vps[k] * pow(own_address, k - 1)]) % N

C6_ComplaintIffEquationFails ==
    ecdkg.phase >= key_check =>
        \A p \in DOMAIN ecdkg.participants :
            LET part == ecdkg.participants[p]
            IN (IsSet(part.secret_share1) /\ IsSet(part.secret_share2)
                /\ IsSet(part.verification_points)) =>
                   /\ ComplaintsByOwn(part) <= 1
                   /\ (ComplaintsByOwn(part) = 1) <=> ~SharesVerify(part)

\* C7: before the decryption-condition signal has fired, no
\* get_decryption_key_part request is broadcast, no participant's
\* decryption_key_part is stored, decryption_key is unset and phase is not
\* complete.
C7_SignalPrecedesReconstruction ==
    ~satisfied =>
        /\ "get_decryption_key_part" \notin sent
        /\ \A p \in DOMAIN ecdkg.participants :
               ~IsSet(ecdkg.participants[p].decryption_key_part)
        /\ ~IsSet(ecdkg.decryption_key)
        /\ ecdkg.phase /= complete
        /\ \A t \in Tasks : pc[t] /= "kp_parts"

C7_Witness ==
    /\ ~satisfied
    /\ \E t \in Tasks : pc[t] = "kp_wait"
    /\ DOMAIN ecdkg.participants /= {}

\* C8: at any time at most one phase-handler invocation is in progress for
\* the session.
C8_OneHandlerAtATime == HandlersInProgress <= 1

\* C9: the store never holds a Participant row, a Complaint row or a field
\* written by a phase handler while the phase it holds is still the phase
\* that handler starts from.
StoredParticipants == {database.participants[p] : p \in DOMAIN database.participants}

C9_StoreHoldsWholePhases ==
    /\ database.phase = uninitialized =>
           /\ StoredParticipants = {}
           /\ ~IsSet(database.threshold)
    /\ database.phase <= key_distribution =>
           \A part \in StoredParticipants :
               /\ ~IsSet(part.secret_share1)
               /\ ~IsSet(part.verification_points)
    /\ database.phase <= key_verification =>
           \A part \in StoredParticipants : part.complaints = <<>>
    /\ database.phase <= key_generation =>
           /\ ~IsSet(database.encryption_key)
           /\ \A part \in StoredParticipants : ~IsSet(part.encryption_key_part)
    /\ database.phase <= key_publication =>
           /\ ~IsSet(database.decryption_key)
           /\ \A part \in StoredParticipants : ~IsSet(part.decryption_key_part)

\* C10: once the uninitialized handler has completed, threshold is
\* ceil(0.5*(n+1)) for n the number of participant rows, which are the
\* connected peers, and secret_poly1, secret_poly2 and verification_points
\* each have exactly threshold elements.
C10_Threshold ==
    ecdkg.phase >= key_distribution =>
        LET n == Cardinality(DOMAIN ecdkg.participants)
            t == Val(ecdkg.threshold)
        IN /\ DOMAIN ecdkg.participants = channels
           /\ 2 * t >= n + 1
           /\ 2 * (t - 1) < n + 1
           /\ Len(Val(ecdkg.secret_poly1)) = t
           /\ Len(Val(ecdkg.secret_poly2)) = t
           /\ Len(Val(ecdkg.verification_points)) = t

C10_Witness ==
    /\ ecdkg.phase >= key_distribution
    /\ Cardinality(DOMAIN ecdkg.participants) = MaxPeers
    /\ Val(ecdkg.threshold) = Len(Val(ecdkg.verification_points))

\* C11 (as the code has it): the threshold the uninitialized handler stores
\* is ceil(0.5*(n+1)) for n the number of connected peers, the node itself
\* not counted: with one peer it is 1, with two peers 2.
C11_ThresholdCountsPeersOnly ==
    ecdkg.phase >= key_distribution =>
        Val(ecdkg.threshold) = ceil_half(Cardinality(channels) + 1)

C11_Witness ==
    /\ ecdkg.phase >= key_distribution
    /\ Cardinality(channels) = 1
    /\ Val(ecdkg.threshold) = 1

\* C11 (as stated): the threshold is ceil(0.5*(n+1)) for n the number of
\* peers plus one for the node itself.
C11_ThresholdCountsSelf ==
    ecdkg.phase >= key_distribution =>
        Val(ecdkg.threshold) = ceil_half((Cardinality(channels) + 1) + 1)

\* C18: in every state with phase >= key_distribution the node's threshold,
\* secret_poly1, secret_poly2, verification_points and encryption_key_part
\* are set, verification_points[k] = secret_poly1[k]*G + secret_poly2[k]*G2
\* for all k, encryption_key_part = secret_poly1[0]*G, and no step changes
\* any of these fields, whichever handler or call takes it.
OwnContribution(self) ==
    <<self.threshold, self.secret_poly1, self.secret_poly2,
      self.verification_points, self.encryption_key_part>>

OwnContributionConsistent(self) ==
    /\ \A i \in 1..5 : IsSet(OwnContribution(self)[i])
    /\ Len(Val(self.verification_points)) = Len(Val(self.secret_poly1))
    /\ Len(Val(self.secret_poly2)) = Len(Val(self.secret_poly1))
    /\ \A k \in 1..Len(Val(self.secret_poly1)) :
           Val(self.verification_points)[k] =
               (Val(self.secret_poly1)[k] * G + Val(self.secret_poly2)[k] * G2) % N
    /\ Val(self.encryption_key_part) = (Val(self.secret_poly1)[1] * G) % N

C18_OwnContributionFixed ==
    /\ [](ecdkg.phase >= key_distribution => OwnContributionConsistent(ecdkg))
    /\ [][ecdkg.phase >= key_distribution =>
              OwnContribution(ecdkg') = OwnContribution(ecdkg)]_vars

C18_Witness ==
    /\ ecdkg.phase = complete
    /\ calls = MaxCalls
    /\ \E t \in Tasks : pc[t] = "ProtocolError"
    /\ Len(Val(ecdkg.secret_poly1)) > 1

\* C19: whatever the peers reply to get_complaints, the step in which a
\* key_check handler finishes sets phase to key_generation, ends with no
\* exception, and changes no other session field, no participant field and
\* no complaint, in memory or in the store.
SessionFieldsButPhase(self) == [self EXCEPT !.phase = uninitialized]

StoredComplaints ==
    [p \in DOMAIN database.participants |-> database.participants[p].complaints]

C19_KeyCheckOnlyAdvances ==
    [][\A t \in Tasks :
        (pc[t] = "kc_complaints" /\ pc'[t] /= "kc_complaints") =>
            /\ ecdkg'.phase = key_generation
            /\ SessionFieldsButPhase(ecdkg') = SessionFieldsButPhase(ecdkg)
            /\ StoredComplaints' = StoredComplaints
            /\ pc'[t] \in {"kg_parts", "done"}
      ]_vars

\* A key_check handler has finished on a session that holds a complaint.
C19_Witness ==
    /\ ecdkg.phase = key_generation
    /\ \E t \in Tasks : pc[t] = "kg_parts"
    /\ \E p \in DOMAIN ecdkg.participants :
           ecdkg.participants[p].complaints /= <<>>

\* C15: when the key_distribution handler has finished and the
\* key_verification handler runs over a participant whose secret shares are
\* set and whose verification_points are unset, the handler does not abort:
\* it records a complaint by own_address against the participant and phase
\* becomes key_check.
SharesWithoutPoints(part) ==
    /\ IsSet(part.secret_share1)
    /\ IsSet(part.secret_share2)
    /\ ~IsSet(part.verification_points)

C15_MissingPointsComplaint ==
    [][\A t \in Tasks :
        (pc[t] = "kd_vpoints" /\ pc'[t] \notin {"kd_vpoints", "ValueError", "idle"}) =>
            \A p \in DOMAIN ecdkg'.participants :
                SharesWithoutPoints(ecdkg'.participants[p]) =>
                    /\ pc'[t] /= "TypeError"
                    /\ ecdkg'.phase >= key_check
                    /\ \E i \in 1..Len(ecdkg'.participants[p].complaints) :
                           ecdkg'.participants[p].complaints[i] = own_address
      ]_vars

\* C16: an invalid get_verification_points reply (a string that is no hex, a
\* list whose length is not threshold) is dropped: no key_distribution
\* handler ends with an exception, and every verification_points tuple
\* stored on a participant has exactly threshold points.
C16_InvalidReplyDropped ==
    /\ \A t \in Tasks : pc[t] /= "ValueError"
    /\ \A p \in DOMAIN ecdkg.participants :
           IsSet(ecdkg.participants[p].verification_points) =>
               Len(Val(ecdkg.participants[p].verification_points))
                   = Val(ecdkg.threshold)

\* Peers that may stay silent on either broadcast of key_distribution and
\* answer well-formed data otherwise.
SilentAdversary == {"no_shares", "no_points"}

InitSilent == Fresh /\ adversary = SilentAdversary

SpecSilent == InitSilent /\ [][Next]_vars

\* The shares and their signature are unset on the participant.
SharesUnset(part) ==
    /\ ~IsSet(part.secret_share1)
    /\ ~IsSet(part.secret_share2)
    /\ ~IsSet(part.shares_signature)

\* C17: whichever participants answer the two broadcasts of key_distribution,
\* a handler that ends leaves phase >= key_verification, has the shares of
\* the properly signed repliers and the points of the repliers stored, and
\* the shares, signature and verification_points of the participants that
\* did not answer it unset.
C17_MissingRepliesNotFatal ==
    [][\A t \in Tasks :
          (pc[t] = "kd_vpoints" /\ pc'[t] \notin {"kd_vpoints", "ValueError", "idle"}) =>
              /\ ecdkg'.phase >= key_verification
              /\ \A p \in DOMAIN ecdkg'.participants :
                     /\ p \notin heard'[t].shares =>
                            SharesUnset(ecdkg'.participants[p])
                     /\ p \notin heard'[t].points =>
                            ~IsSet(ecdkg'.participants[p].verification_points)
                     /\ p \in heard'[t].shares \ badSig'[t] =>
                            ~SharesUnset(ecdkg'.participants[p])
                     /\ p \in heard'[t].points =>
                            IsSet(ecdkg'.participants[p].verification_points)]_vars

\* C13: a run_until_phase(X) call made after a run_until_phase(X) call has
\* returned, with no broadcast reply delivered in between, returns at once:
\* it enters no handler, sends no broadcast, and leaves every field of the
\* session, of its participants and of their complaints, in memory and in
\* the store, as it was.
C13_SecondCallChangesNothing ==
    [][\A t \in Tasks, X \in Targets :
          (Call(t, X) /\ X \in returned) =>
              /\ pc'[t] = "done"
              /\ sent' = sent
              /\ ecdkg' = ecdkg
              /\ database' = database]_vars

\* One coroutine made every call, so the calls did not overlap; the last one
\* asked for key_generation after an earlier one had returned from it (a
\* call for complete would have broadcast get_encryption_key_part), and it
\* returned.
C13_Witness ==
    /\ calls = MaxCalls
    /\ key_generation \in returned
    /\ ecdkg.phase = key_generation
    /\ "get_encryption_key_part" \notin sent
    /\ \E t \in Tasks :
           /\ pc[t] = "done"
           /\ target[t] = key_generation
           /\ \A u \in Tasks \ {t} : pc[u] = "idle"

\* ------------------------------------------------- peers that connect late
\* A peer connects: networking.channels gains its address.  The mappings the
\* later broadcasts return are keyed by it too.
Connect(p) ==
    /\ p \in Peers \ channels
    /\ channels' = channels \cup {p}
    /\ UNCHANGED <<ecdkg, database, adversary, pc, target, calls, satisfied,
                   sent, history, returned, nodes, npc, tables>>

InitJoin == Fresh /\ adversary = {}

NextJoin ==
    \/ Next
    \/ \E p \in Peers : Connect(p)

\* The session with honest peers, some of which connect while it runs.
SpecJoin == InitJoin /\ [][NextJoin]_vars

\* Every field set on the participant row of p holds what p itself answers.
OwnAnswersOnly(p, part, t) ==
    LET h == get_signed_secret_shares(peer_session(p, t), p, own_address)
    IN /\ IsSet(part.secret_share1) => Val(part.secret_share1) = h.shares[1]
       /\ IsSet(part.secret_share2) => Val(part.secret_share2) = h.shares[2]
       /\ IsSet(part.shares_signature) =>
              Val(part.shares_signature) = h.signature
       /\ IsSet(part.verification_points) =>
              Val(part.verification_points)
                  = generate_public_shares(peer_poly1(p, t), peer_poly2(p, t))
       /\ IsSet(part.encryption_key_part) =>
              Val(part.encryption_key_part) = multiply(G, peer_poly1(p, t)[1])
       /\ IsSet(part.decryption_key_part) =>
              Val(part.decryption_key_part) = peer_poly1(p, t)[1]

\* The keys, once set, are made of the own part and the participants' parts.
KeysOfParticipants(self) ==
    LET P == DOMAIN self.participants
        t == Val(self.threshold)
    IN /\ IsSet(self.encryption_key) =>
              Val(self.encryption_key)
                  = (Val(self.encryption_key_part)
                     + SumOver(P, [p \in P |->
                           multiply(G, peer_poly1(p, t)[1])])) % N
       /\ IsSet(self.decryption_key) =>
              Val(self.decryption_key)
                  = (Val(self.secret_poly1)[1]
                     + SumOver(P, [p \in P |-> peer_poly1(p, t)[1]])) % N

\* C20: once phase >= key_distribution no step adds or removes a participant,
\* in memory or in the store; and with peers that connect later and answer
\* the broadcasts, every participant field holds the participant's own
\* answer and the keys are made of the participants' parts only.
C20_ParticipantsFixed ==
    /\ [](ecdkg.phase >= key_distribution =>
            /\ \A p \in DOMAIN ecdkg.participants :
                   OwnAnswersOnly(p, ecdkg.participants[p], Val(ecdkg.threshold))
            /\ KeysOfParticipants(ecdkg))
    /\ [][ecdkg.phase >= key_distribution =>
            /\ DOMAIN ecdkg'.participants = DOMAIN ecdkg.participants
            /\ DOMAIN database'.participants = DOMAIN database.participants]_vars

\* The session completed with a participant, and a peer that is no
\* participant answered both key-part broadcasts.
C20_Witness ==
    /\ ecdkg.phase = complete
    /\ DOMAIN ecdkg.participants /= {}
    /\ \E p \in Peers \ DOMAIN ecdkg.participants :
           /\ p \in channels
           /\ ekpSeen[p] /= {}
           /\ dkpSeen[p] /= {}

\* ------------------------------------------------ peers that answer at last
\* Peers on which the get_encryption_key_part broadcast may time out.
LateAdversary == {"no_enc_part"}

\* One peer is connected.
InitLive ==
    /\ Fresh
    /\ adversary = LateAdversary
    /\ Cardinality(channels) = 1

\* From now on every peer answers every broadcast, with well-formed data.
Recover ==
    /\ adversary /= {}
    /\ adversary' = {}
    /\ UNCHANGED <<ecdkg, database, channels, pc, target, calls, satisfied,
                   sent, history, returned, nodes, npc, tables>>

NextLive ==
    \/ Next
    \/ Recover

\* The coroutine t can be resumed: the broadcast it awaits returns when the
\* peers have answered or timed out, the wait of key_publication when the
\* signal has fired.
Ready(t) ==
    /\ pc[t] \in InHandler
    /\ pc[t] = "kp_wait" => satisfied

\* The coroutine t leaves its suspension point.  Every such step is the
\* Resume action of t's suspension point.
Resumes(t) ==
    /\ Ready(t)
    /\ \E at \in (InHandler \cup Returned) \ {pc[t]} :
           pc' = [pc EXCEPT ![t] = at]

\* The event loop resumes every coroutine that is ready, and the
\* decryption-condition signal fires.
Fairness ==
    /\ \A t \in Tasks : WF_pc(Resumes(t))
    /\ WF_vars(ConditionFires)

SpecLive == InitLive /\ [][NextLive]_vars /\ Fairness

\* The phase whose handler the coroutine is suspended in.
handler_of(at) ==
    CASE at \in {"kd_shares", "kd_vpoints"} -> key_distribution
      [] at = "kc_complaints" -> key_check
      [] at = "kg_parts" -> key_generation
      [] at \in {"kp_wait", "kp_parts"} -> key_publication

\* The phase at which a coroutine that holds control at phase p next
\* suspends or returns: the handlers of uninitialized and key_verification
\* run on the spot, each advancing phase by one.
next_stop(p) ==
    CASE p = uninitialized -> key_distribution
      [] p = key_verification -> key_check
      [] OTHER -> p

\* The last step of a handler: the coroutine leaves its last suspension point.
LastStep(t) ==
    /\ pc[t] \in {"kd_vpoints", "kc_complaints", "kg_parts", "kp_parts"}
    /\ pc'[t] /= pc[t]
    /\ pc'[t] \in InHandler \cup {"done"}

Conditions == {<<"cond-x", 1>>, <<"cond-x", 2>>, <<"cond-y", 1>>}

normalize_decryption_condition(cond) == cond[1]

\* A faulty query, for comparison: it finds no row.
matching_none(rows, row) == {}

\* The ids of the rows a query filtered on the columns of row selects; the
\* id of a row is its position in the table.
matching(rows, row) == {i \in 1..Len(rows) : rows[i] = row}

\* query(...).filter(...).scalar(), then add and commit if it is None.  The
\* unique constraint of the table rejects a second row with the same columns.
get_or_create(st, table, row) ==
    LET found == matching(st[table], row)
    IN IF Cardinality(found) > 1
       THEN [st |-> st, id |-> 0, exc |-> "MultipleResultsFound"]
       ELSE IF found /= {}
       THEN [st |-> st, id |-> CHOOSE i \in found : TRUE, exc |-> ""]
       ELSE IF \E i \in 1..Len(st[table]) : st[table][i] = row
       THEN [st |-> st, id |-> 0, exc |-> "IntegrityError"]
       ELSE [st |-> [st EXCEPT ![table] = Append(@, row)],
             id |-> Len(st[table]) + 1, exc |-> ""]

get_or_create_by_decryption_condition(st, cond) ==
    get_or_create(st, "ecdkg",
        [decryption_condition |-> normalize_decryption_condition(cond)])

\* get_or_create_participant_by_address on the session row ecdkg_id.
get_or_create_participant_row(st, ecdkg_id, address) ==
    get_or_create(st, "ecdkg_participant",
        [ecdkg_id |-> ecdkg_id, eth_address |-> address])

\* get_or_create_complaint_by_complainer_address on the participant row
\* participant_id.
get_or_create_complaint_row(st, participant_id, address) ==
    get_or_create(st, "ecdkg_complaint",
        [participant_id |-> participant_id, complainer_address |-> address])

\* The call with the look-up key `key` returned r.
Returns(key, r) ==
    /\ Len(r.st.ecdkg_participant) <= MaxRows
    /\ Len(r.st.ecdkg_complaint) <= MaxRows
    /\ store' = r.st
    /\ handed' = IF r.exc /= "" \/ key \in DOMAIN handed THEN handed
                 ELSE (key :> r.id) @@ handed
    /\ last' = <<[key |-> key, id |-> r.id, exc |-> r.exc,
                  again |-> key \in DOMAIN handed]>>
    /\ UNCHANGED <<ecdkg, database, channels, adversary, pc, target, calls,
                   satisfied, sent, history, returned, nodes, npc>>

GetOrCreateSession(cond) ==
    /\ cond \in Conditions
    /\ Returns(<<"ecdkg", normalize_decryption_condition(cond)>>,
               get_or_create_by_decryption_condition(store, cond))

GetOrCreateParticipant(ecdkg_id, address) ==
    /\ ecdkg_id \in 1..Len(store.ecdkg)
    /\ Returns(<<"ecdkg_participant", ecdkg_id, address>>,
               get_or_create_participant_row(store, ecdkg_id, address))

GetOrCreateComplaint(participant_id, address) ==
    /\ participant_id \in 1..Len(store.ecdkg_participant)
    /\ Returns(<<"ecdkg_complaint", participant_id, address>>,
               get_or_create_complaint_row(store, participant_id, address))

InitStore == Fresh /\ adversary = {} /\ channels = {}

NextStore ==
    \/ \E cond \in Conditions : GetOrCreateSession(cond)
    \/ \E ecdkg_id \in 1..Cardinality(Conditions), address \in Peers :
           GetOrCreateParticipant(ecdkg_id, address)
    \/ \E participant_id \in 1..MaxRows, address \in Nodes :
           GetOrCreateComplaint(participant_id, address)

\* Any sequence of look-up-or-create calls on the three tables.
SpecStore == InitStore /\ [][NextStore]_vars

\* No two rows of the table have the same columns.
NoDuplicate(rows) ==
    \A i, j \in 1..Len(rows) : rows[i] = rows[j] => i = j

\* C14: after any sequence of look-up-or-create calls no table holds two
\* rows for one key (normalized decryption_condition; session and address;
\* participant and complainer address), every call returns the id first
\* returned for its key, and a call with a key already returned adds no row.
C14_LookUpOrCreateIdempotent ==
    /\ [](/\ NoDuplicate(store.ecdkg)
          /\ NoDuplicate(store.ecdkg_participant)
          /\ NoDuplicate(store.ecdkg_complaint)
          /\ last /= <<>> =>
                 /\ last[1].exc = ""
                 /\ last[1].id = handed[last[1].key])
    /\ [][(last' /= <<>> /\ last'[1].key \in DOMAIN handed) =>
             store' = store]_vars

\* A complaint was looked up a second time, with two sessions (one of them
\* asked for under two spellings) and two participants in the tables.
C14_Witness ==
    /\ last /= <<>>
    /\ last[1].again
    /\ last[1].key[1] = "ecdkg_complaint"
    /\ Len(store.ecdkg) = 2
    /\ Len(store.ecdkg_participant) >= 2
    /\ Len(store.ecdkg_complaint) >= 2

=============================================================================
